---- MODULE Spec2Model ----
(***************************************************************************)
(* Lead enrichment worker (src/enrichment-worker): the job coordinator     *)
(* process_enrichment, the orchestrator enrich_single_business, the source *)
(* resolver search_business, the e-mail part of the extractor scrape_url   *)
(* and the contact store written by _store_contact.                        *)
(*                                                                         *)
(* Four specifications share the variables:                                *)
(*   Spec        one run of process_enrichment over a batch                *)
(*   SpecSearch  search_business applied to one collaborator response      *)
(*   SpecScrape  the e-mail extraction of scrape_url applied to one page   *)
(*   SpecStore   sequences of contact writes, as enrich_single_business    *)
(*               issues them                                               *)
(***************************************************************************)
EXTENDS Integers, Sequences, FiniteSets, TLC

VARIABLES
    \* ---- process_enrichment (main.py:85-135)
    supabase,       \* main.py:32, TRUE when the persistence client is configured
    request,        \* EnrichRequest: [job_id, search_id, businesses]
    pc,             \* position of the background task
    idx,            \* index of the business the for loop is at
    processed,      \* local counter, main.py:90
    job,            \* row of enrichment_jobs with id = request.job_id
    jobWrites,      \* history: the updates the jobs table accepted, in order
    jobWriteFailed, \* history: some update of the jobs table raised
    callbacks,      \* history: payloads handed to send_callback, in order
    error_msg,      \* main.py:123, kept as its length
    \* ---- enrich_single_business (main.py:138-201)
    brave_results,  \* what search_business returned for the current business
    urls_to_scrape, \* urls_to_scrape[:3] of the current business
    uidx,           \* index of the URL the scrape loop is at
    attempted,      \* history: business ids handed to enrich_single_business
    raised,         \* history: batch positions whose enrichment raised
    scraped,        \* history: urls of the current business handed to scrape_url
    extracted,      \* history: keys of the contacts scrape_url returned
    storeFailed,    \* history: some contact write raised inside _store_contact
    lead_contacts,  \* table lead_contacts, a set of rows
    \* ---- search_business (brave_search.py:37-93)
    response,       \* what the search collaborator answers
    search_out,     \* outcome of search_business
    \* ---- scrape_url (scraper.py:71-79)
    page,           \* [text_emails, mailto] of the fetched document
    scrape_out,     \* outcome of the e-mail extraction
    \* ---- contact writes (main.py:166-198, 221-250)
    nwrites,        \* number of writes issued so far
    lastWrite       \* history: [before, rows, ok] of the last write

vars == <<supabase, request, pc, idx, processed, job, jobWrites, jobWriteFailed,
          callbacks, error_msg, brave_results, urls_to_scrape, uidx, attempted,
          raised, scraped, extracted, storeFailed, lead_contacts, response, search_out,
          page, scrape_out, nwrites, lastWrite>>

jobVars == <<supabase, request, pc, idx, processed, job, jobWrites,
             jobWriteFailed, callbacks, error_msg, brave_results,
             urls_to_scrape, uidx, attempted, raised, scraped, extracted,
             storeFailed>>
searchVars == <<response, search_out>>
scrapeVars == <<page, scrape_out>>
storeVars == <<nwrites, lastWrite>>

-----------------------------------------------------------------------------
(* Strings *)

UpperChars == "ABCDEFGHIJKLMNOPQRSTUVWXYZ"
LowerChars == "abcdefghijklmnopqrstuvwxyz"

\* the lower-case letter of each upper-case letter
LowerOf ==
    [c \in {SubSeq(UpperChars, i, i) : i \in 1..Len(UpperChars)} |->
        LET i == CHOOSE k \in 1..Len(UpperChars) : SubSeq(UpperChars, k, k) = c
        IN  SubSeq(LowerChars, i, i)]

\* str.lower() on one character
LowerChar(c) == IF c \in DOMAIN LowerOf THEN LowerOf[c] ELSE c

RECURSIVE Lower(_)
\* str.lower()
Lower(s) ==
    IF Len(s) = 0 THEN ""
    ELSE LowerChar(SubSeq(s, 1, 1)) \o Lower(SubSeq(s, 2, Len(s)))

\* str.startswith(p)
StartsWith(s, p) == Len(s) >= Len(p) /\ SubSeq(s, 1, Len(p)) = p

\* str.endswith(p)
EndsWith(s, p) == Len(s) >= Len(p) /\ SubSeq(s, Len(s) - Len(p) + 1, Len(s)) = p

\* Python's `p in s` on strings
Contains(s, p) ==
    \E i \in 1..(Len(s) - Len(p) + 1) : SubSeq(s, i, i + Len(p) - 1) = p

-----------------------------------------------------------------------------
(* URLs.  A URL is [scheme, netloc, path]; EmptyUrl stands for the falsy    *)
(* values "" and None.                                                     *)

EmptyUrl == [scheme |-> "", netloc |-> "", path |-> ""]

Url(scheme, netloc, path) == [scheme |-> scheme, netloc |-> netloc, path |-> path]

\* urlparse(url).hostname: the netloc, lowercased; None (here "") when the
\* URL has no "scheme://" part
Hostname(url) == IF url.scheme = "" THEN "" ELSE Lower(url.netloc)

\* _extract_domain
ExtractDomain(url) ==
    LET domain == Hostname(url)
        stripped == IF StartsWith(domain, "www.")
                    THEN SubSeq(domain, 5, Len(domain))
                    ELSE domain
    IN  Lower(stripped)

-----------------------------------------------------------------------------
(* search_business *)

SKIP_DOMAINS ==
    {"yelp.com", "tripadvisor.com", "tripadvisor.com.ar",
     "google.com", "google.com.ar", "maps.google.com",
     "paginasamarillas.com.ar", "paginasamarillas.com",
     "yellowpages.com", "wikipedia.org", "youtube.com",
     "guiaoleo.com.ar", "restorando.com.ar"}

\* dict order is insertion order
SOCIAL_DOMAINS ==
    << [domain |-> "instagram.com", type |-> "instagram"],
       [domain |-> "facebook.com",  type |-> "facebook"],
       [domain |-> "linkedin.com",  type |-> "linkedin"],
       [domain |-> "twitter.com",   type |-> "twitter"],
       [domain |-> "x.com",         type |-> "twitter"] >>

\* the for ... break ... else over SOCIAL_DOMAINS.items(): the index of the
\* first entry whose key is a substring of the domain, 0 when the loop
\* runs to its else
FirstSocialMatch(domain) ==
    LET hits == {i \in 1..Len(SOCIAL_DOMAINS) : Contains(domain, SOCIAL_DOMAINS[i].domain)}
    IN  IF hits = {} THEN 0
        ELSE CHOOSE i \in hits : \A j \in hits : i <= j

EmptyResult ==
    [raised |-> FALSE, website |-> EmptyUrl, social_urls |-> <<>>, all_urls |-> <<>>]

Raise == [raised |-> TRUE, website |-> EmptyUrl, social_urls |-> <<>>, all_urls |-> <<>>]

\* faulty variant: the website test comes before the social test
ClassifyResultWebsiteFirst(acc, url) ==
    IF url = EmptyUrl THEN acc
    ELSE LET domain == ExtractDomain(url)
             m == FirstSocialMatch(domain)
             all == Append(acc.all_urls, url)
         IN  IF acc.website = EmptyUrl /\ domain \notin SKIP_DOMAINS
             THEN [acc EXCEPT !.all_urls = all, !.website = url]
             ELSE IF m # 0
                  THEN [acc EXCEPT !.all_urls = all,
                                   !.social_urls = Append(@, [type |-> SOCIAL_DOMAINS[m].type,
                                                              url |-> url])]
                  ELSE [acc EXCEPT !.all_urls = all]

\* one iteration of `for result in results`
ClassifyResult(acc, url) ==
    IF url = EmptyUrl THEN acc
    ELSE LET domain == ExtractDomain(url)
             m == FirstSocialMatch(domain)
             all == Append(acc.all_urls, url)
         IN  IF m # 0
             THEN [acc EXCEPT !.all_urls = all,
                              !.social_urls = Append(@, [type |-> SOCIAL_DOMAINS[m].type,
                                                         url |-> url])]
             ELSE IF acc.website = EmptyUrl /\ domain \notin SKIP_DOMAINS
                  THEN [acc EXCEPT !.all_urls = all, !.website = url]
                  ELSE [acc EXCEPT !.all_urls = all]

RECURSIVE ClassifyAll(_, _)
ClassifyAll(acc, results) ==
    IF results = <<>> THEN acc
    ELSE ClassifyAll(ClassifyResult(acc, Head(results)), Tail(results))

\* the kinds of answer of the search collaborator
TransportFailures == {"network_error", "http_error", "invalid_json"}
\* JSON that parses but is not {"web": {"results": [{...}, ...]}}
BadShapes == {"top_not_object", "web_not_object", "results_not_list", "item_not_object"}

\* search_business, from the collaborator's answer
\*   resp.kind  "network_error" | "http_error" | "invalid_json" | "json"
\*   resp.shape "object" or one of BadShapes (kind = "json")
\*   resp.results  the url of each entry of web.results, EmptyUrl when absent
search_business(resp) ==
    IF resp.kind \in TransportFailures
    THEN EmptyResult                      \* except Exception: return empty
    ELSE IF resp.shape \in BadShapes
         THEN Raise                       \* data.get / iteration / result.get raise
         ELSE ClassifyAll(EmptyResult, resp.results)

-----------------------------------------------------------------------------
(* normalizer.py *)

Min(a, b) == IF a <= b THEN a ELSE b

RECURSIVE LStrip(_)
LStrip(s) ==
    IF Len(s) > 0 /\ SubSeq(s, 1, 1) = " " THEN LStrip(SubSeq(s, 2, Len(s))) ELSE s

RECURSIVE RStrip(_)
RStrip(s) ==
    IF Len(s) > 0 /\ SubSeq(s, Len(s), Len(s)) = " "
    THEN RStrip(SubSeq(s, 1, Len(s) - 1)) ELSE s

\* str.strip()
Strip(s) == RStrip(LStrip(s))

RECURSIVE RemoveChars(_, _)
\* s.replace(c, "") for every c of chars
RemoveChars(s, chars) ==
    IF Len(s) = 0 THEN ""
    ELSE LET c == SubSeq(s, 1, 1)
             rest == RemoveChars(SubSeq(s, 2, Len(s)), chars)
         IN  IF c \in chars THEN rest ELSE c \o rest

\* positions of character c in s
Positions(s, c) == {i \in 1..Len(s) : SubSeq(s, i, i) = c}

Digits == {"0", "1", "2", "3", "4", "5", "6", "7", "8", "9"}

IsDigits(s) == Len(s) > 0 /\ \A i \in 1..Len(s) : SubSeq(s, i, i) \in Digits

\* validate_email(s, check_deliverability=False) accepts s: one "@", a
\* non-empty local part, a dotted domain
IsValidEmail(s) ==
    /\ Cardinality(Positions(s, "@")) = 1
    /\ LET at == CHOOSE i \in Positions(s, "@") : TRUE
           domain == SubSeq(s, at + 1, Len(s))
       IN  /\ at > 1
           /\ Positions(s, " ") = {}
           /\ \E d \in Positions(domain, ".") : 1 < d /\ d < Len(domain)

\* normalize_email: <<normalized_value, is_valid>>
normalize_email(raw) ==
    LET s == Strip(raw)
    IN  IF IsValidEmail(s)
        THEN LET at == CHOOSE i \in Positions(s, "@") : TRUE
             IN  <<SubSeq(s, 1, at) \o Lower(SubSeq(s, at + 1, Len(s))), TRUE>>
        ELSE <<Lower(s), FALSE>>

\* phonenumbers.parse(cleaned, "AR"): the national number, "" when
\* NumberParseException is raised
NationalNumber(cleaned) ==
    IF StartsWith(cleaned, "+54") /\ IsDigits(SubSeq(cleaned, 4, Len(cleaned)))
    THEN SubSeq(cleaned, 4, Len(cleaned))
    ELSE IF ~IsDigits(cleaned) THEN ""
    ELSE IF StartsWith(cleaned, "0") THEN SubSeq(cleaned, 2, Len(cleaned))
    ELSE cleaned

\* normalize_phone(raw, "AR"): <<normalized_value, is_valid>>
normalize_phone(raw) ==
    LET cleaned == RemoveChars(Strip(raw), {" ", "-", "."})
        national == NationalNumber(cleaned)
    IN  IF national = "" THEN <<Strip(raw), FALSE>>
        ELSE <<"+54" \o national, Len(national) = 10>>

\* normalize_whatsapp
normalize_whatsapp(raw) == normalize_phone(raw)

\* the text of a URL
UrlText(url) == IF url.scheme = "" THEN url.netloc \o url.path
                ELSE url.scheme \o "://" \o url.netloc \o url.path

\* compute_confidence, in tenths (0.5 is 5, 1.0 is 10)
compute_confidence(contact_type, is_valid, source) ==
    LET base1 == 5 + (IF is_valid THEN 3 ELSE 0)
        base2 == base1 + (IF Len(source) > 0
                             /\ (Contains(source, "mailto:") \/ Contains(source, "tel:"))
                          THEN 1 ELSE 0)
        base3 == base2 + (IF Len(source) > 0 /\ Contains(source, "wa.me") THEN 1 ELSE 0)
    IN  Min(base3, 10)

-----------------------------------------------------------------------------
(* The contact store and the writes of enrich_single_business *)

Normalize(contact_type, raw) ==
    CASE contact_type = "email"    -> normalize_email(raw)
      [] contact_type = "phone"    -> normalize_phone(raw)
      [] contact_type = "whatsapp" -> normalize_whatsapp(raw)

\* the row enrich_single_business hands to _store_contact for one raw value
ContactRow(search_id, business_id, contact_type, raw, url) ==
    LET n == Normalize(contact_type, raw)
    IN  [search_id |-> search_id,
         business_id |-> business_id,
         contact_type |-> contact_type,
         raw_value |-> raw,
         normalized_value |-> n[1],
         is_valid |-> n[2],
         confidence |-> compute_confidence(contact_type, n[2], UrlText(url)),
         source_url |-> url]

\* on_conflict="business_id,contact_type,normalized_value"
Key(row) == <<row.business_id, row.contact_type, row.normalized_value>>

\* faulty variant: ignore_duplicates=False, a conflicting row is replaced
StoreContactOverwrite(table, row, ok) ==
    IF ~ok THEN table
    ELSE {r \in table : Key(r) # Key(row)} \cup {row}

\* _store_contact: upsert with ignore_duplicates=True; ok = FALSE when the
\* call raises, which the function swallows
StoreContact(table, row, ok) ==
    IF ~ok THEN table
    ELSE IF \E r \in table : Key(r) = Key(row) THEN table
    ELSE table \cup {row}

RECURSIVE StoreAll(_, _, _)
\* the writes of one page, in order
StoreAll(table, rows, oks) ==
    IF rows = <<>> THEN table
    ELSE StoreAll(StoreContact(table, Head(rows), Head(oks)), Tail(rows), Tail(oks))

\* the three for loops over contacts["emails"], ["phones"], ["whatsapps"]
PageRows(search_id, business_id, url, contacts) ==
    [i \in 1..Len(contacts.emails) |->
        ContactRow(search_id, business_id, "email", contacts.emails[i], url)]
    \o [i \in 1..Len(contacts.phones) |->
        ContactRow(search_id, business_id, "phone", contacts.phones[i], url)]
    \o [i \in 1..Len(contacts.whatsapps) |->
        ContactRow(search_id, business_id, "whatsapp", contacts.whatsapps[i], url)]

NoContacts == [emails |-> <<>>, phones |-> <<>>, whatsapps |-> <<>>]

-----------------------------------------------------------------------------
(* enrich_single_business: the list of URLs to scrape *)

SCRAPE_CAP == 3

Take(s, n) == SubSeq(s, 1, Min(n, Len(s)))

\* faulty variant: the URLs are compared, not their domains
UrlsToScrapeCompareUrls(website, existing_website) ==
    LET first == IF website # EmptyUrl THEN <<website>> ELSE <<>>
    IN  IF existing_website # EmptyUrl /\ existing_website # website
        THEN Append(first, existing_website)
        ELSE first

\* main.py:147-163
UrlsToScrape(website, existing_website) ==
    LET first == IF website # EmptyUrl THEN <<website>> ELSE <<>>
        existing_domain == ExtractDomain(existing_website)
        brave_domain == ExtractDomain(website)
    IN  IF existing_website # EmptyUrl
           /\ existing_domain # "" /\ existing_domain # brave_domain
        THEN Append(first, existing_website)
        ELSE first

-----------------------------------------------------------------------------
(* scrape_url: the e-mails of a page *)

JUNK_EMAIL_DOMAINS ==
    {"example.com", "sentry.io", "wixpress.com", "w3.org",
     "schema.org", "googleapis.com", "googletagmanager.com"}

EMAIL_CAP == 5

RECURSIVE ReplaceAll(_, _)
\* s.replace(p, "")
ReplaceAll(s, p) ==
    IF Len(s) = 0 THEN ""
    ELSE IF StartsWith(s, p) THEN ReplaceAll(SubSeq(s, Len(p) + 1, Len(s)), p)
    ELSE SubSeq(s, 1, 1) \o ReplaceAll(SubSeq(s, 2, Len(s)), p)

\* s.split(c)[0]
BeforeFirst(s, c) ==
    IF Positions(s, c) = {} THEN s
    ELSE LET i == CHOOSE k \in Positions(s, c) : \A j \in Positions(s, c) : k <= j
         IN  SubSeq(s, 1, i - 1)

\* s.split(c)[-1]
AfterLast(s, c) ==
    IF Positions(s, c) = {} THEN s
    ELSE LET i == CHOOSE k \in Positions(s, c) : \A j \in Positions(s, c) : k >= j
         IN  SubSeq(s, i + 1, Len(s))

\* a_tag["href"].replace("mailto:", "").split("?")[0].strip()
MailtoTarget(href) == Strip(BeforeFirst(ReplaceAll(href, "mailto:"), "?"))

\* _is_junk_email
IsJunkEmail(email) == Lower(AfterLast(email, "@")) \in JUNK_EMAIL_DOMAINS

\* raw_emails: the matches of EMAIL_REGEX in the text and the mailto targets
RawEmails(pg) ==
    pg.text_emails
    \cup {MailtoTarget(h) : h \in {x \in pg.mailto_hrefs : Contains(MailtoTarget(x), "@")}}

\* the lists list(raw_emails)[:EMAIL_CAP] can be: a set iterates in any order
FirstOfSet(S, n) ==
    LET k == Min(n, Cardinality(S))
    IN  {q \in [1..k -> S] : \A i, j \in 1..k : i # j => q[i] # q[j]}

KeepNotJunk(e) == ~IsJunkEmail(e)

\* [e for e in list(raw_emails)[:5] if not _is_junk_email(e)], for the list
\* `first` that list(raw_emails)[:5] is
ScrapedEmails(first) == SelectSeq(first, KeepNotJunk)

-----------------------------------------------------------------------------
(* process_enrichment and enrich_single_business *)

ERROR_CAP == 500

Terminal == {"done", "failed"}

\* the status of the job row when the worker is handed the batch
JobStatusAtStart == {"pending", "processing"}

\* lengths of f"{type(e).__name__}: {e}"
ErrorLens == {40, 700}

MaxBusinesses == 3

UrlAcmeContact == Url("http", "WWW.acme.com.ar", "/contacto")

\* the batch: ids are given by position
Batches ==
    UNION {{[i \in 1..n |-> [id |-> i, existing_website |-> w[i]]] :
              w \in [1..n -> {EmptyUrl, UrlAcmeContact}]} : n \in 0..MaxBusinesses}

\* what the search collaborator answers for a business
EnrichResponses ==
    { [kind |-> "network_error", shape |-> "object", results |-> <<>>],
      [kind |-> "json", shape |-> "item_not_object", results |-> <<>>],
      [kind |-> "json", shape |-> "object",
       results |-> <<Url("https", "www.yelp.com", "/biz/acme"),
                     Url("https", "www.instagram.com", "/acme"),
                     Url("https", "acme.com.ar", "/"),
                     Url("https", "www.luna.com", "/")>>],
      [kind |-> "json", shape |-> "object",
       results |-> <<Url("https", "www.luna.com", "/")>>] }

\* what search_business returns for them (main.py:145)
BraveResults == {search_business(resp) : resp \in EnrichResponses}

\* what scrape_url returns for a page
ScrapeResults ==
    { NoContacts,
      [emails |-> <<" Info@Acme.COM.ar">>, phones |-> <<>>, whatsapps |-> <<>>] }

total == Len(request.businesses)

\* send_callback: the payload posted; delivered = FALSE when the post fails
\* or answers another status than 200, which is only logged
send_callback(status, nprocessed, ntotal, error, delivered) ==
    [job_id |-> request.job_id, search_id |-> request.search_id,
     status |-> status, processed |-> nprocessed, total |-> ntotal,
     error |-> IF error # 0 THEN Min(error, ERROR_CAP) ELSE 0,
     delivered |-> delivered]

enrichVars == <<brave_results, urls_to_scrape, uidx, attempted, raised, scraped,
                extracted, storeFailed, lead_contacts>>
otherVars == <<searchVars, scrapeVars, storeVars>>

Init ==
    /\ supabase \in BOOLEAN
    /\ request \in {[job_id |-> 1, search_id |-> "s1", businesses |-> b] : b \in Batches}
    /\ pc = IF Len(request.businesses) = 0 THEN "mark_done" ELSE "enrich"
    /\ idx = 1
    /\ processed = 0
    /\ job \in {[status |-> st, processed |-> 0, error |-> 0] : st \in JobStatusAtStart}
    /\ jobWrites = <<>>
    /\ jobWriteFailed = FALSE
    /\ callbacks = <<>>
    /\ error_msg = 0
    /\ brave_results = EmptyResult
    /\ urls_to_scrape = <<>>
    /\ uidx = 1
    /\ attempted = <<>>
    /\ raised = {}
    /\ scraped = <<>>
    /\ extracted = {}
    /\ storeFailed = FALSE
    /\ lead_contacts = {}
    /\ response = [kind |-> "json", shape |-> "object", results |-> <<>>]
    /\ search_out = [done |-> FALSE, res |-> EmptyResult]
    /\ page = [fetch |-> "failed", text_emails |-> {}, mailto_hrefs |-> {}]
    /\ scrape_out = [done |-> FALSE, emails |-> <<>>]
    /\ nwrites = 0
    /\ lastWrite = [before |-> {}, rows |-> <<>>, ok |-> FALSE]

\* faulty variant: no try/except around enrich_single_business
EnrichNoIsolation ==
    /\ pc = "enrich"
    /\ attempted' = Append(attempted, request.businesses[idx].id)
    /\ scraped' = <<>>
    /\ uidx' = 1
    /\ IF ~supabase
       THEN /\ pc' = "count"
            /\ brave_results' = EmptyResult
            /\ urls_to_scrape' = <<>>
            /\ UNCHANGED raised
       ELSE \E r \in BraveResults :
                  /\ brave_results' = IF r.raised THEN EmptyResult ELSE r
                  /\ IF r.raised
                     THEN /\ raised' = raised \cup {idx}
                          /\ urls_to_scrape' = <<>>
                          /\ pc' = "handler"
                     ELSE /\ raised' = raised
                          /\ urls_to_scrape' =
                               Take(UrlsToScrape(r.website,
                                                 request.businesses[idx].existing_website),
                                    SCRAPE_CAP)
                          /\ pc' = "scrape"
    /\ UNCHANGED <<supabase, request, idx, processed, job, jobWrites, jobWriteFailed,
                   callbacks, error_msg, extracted, storeFailed, lead_contacts,
                   otherVars>>

\* main.py:96-100 and 138-163: the call of enrich_single_business up to the
\* list of URLs; an exception of search_business is caught at line 98.  The
\* lead_sources rows of lines 149-156 are written and never read back, and
\* _store_source swallows its errors: they are left out of the state.
Enrich ==
    /\ pc = "enrich"
    /\ attempted' = Append(attempted, request.businesses[idx].id)
    /\ scraped' = <<>>
    /\ uidx' = 1
    /\ IF ~supabase
       THEN /\ pc' = "count"
            /\ brave_results' = EmptyResult
            /\ urls_to_scrape' = <<>>
            /\ UNCHANGED raised
       ELSE \E r \in BraveResults :
                  /\ brave_results' = IF r.raised THEN EmptyResult ELSE r
                  /\ IF r.raised
                     THEN /\ raised' = raised \cup {idx}
                          /\ urls_to_scrape' = <<>>
                          /\ pc' = "count"
                     ELSE /\ raised' = raised
                          /\ urls_to_scrape' =
                               Take(UrlsToScrape(r.website,
                                                 request.businesses[idx].existing_website),
                                    SCRAPE_CAP)
                          /\ pc' = "scrape"
    /\ UNCHANGED <<supabase, request, idx, processed, job, jobWrites, jobWriteFailed,
                   callbacks, error_msg, extracted, storeFailed, lead_contacts,
                   otherVars>>

\* main.py:166-198: one iteration of the scrape loop
ScrapeUrl ==
    /\ pc = "scrape"
    /\ uidx <= Len(urls_to_scrape)
    /\ scraped' = Append(scraped, urls_to_scrape[uidx])
    /\ uidx' = uidx + 1
    /\ \/ \* the body raises: caught at line 197
          UNCHANGED <<lead_contacts, extracted, storeFailed>>
       \/ \E contacts \in ScrapeResults :
            LET rows == PageRows(request.search_id, request.businesses[idx].id,
                                 urls_to_scrape[uidx], contacts)
            IN  \E oks \in [1..Len(rows) -> BOOLEAN] :
                  /\ lead_contacts' = StoreAll(lead_contacts, rows, oks)
                  /\ extracted' = extracted \cup {Key(rows[i]) : i \in 1..Len(rows)}
                  /\ storeFailed' = (storeFailed \/ \E i \in 1..Len(rows) : ~oks[i])
    /\ UNCHANGED <<supabase, request, pc, idx, processed, job, jobWrites,
                   jobWriteFailed, callbacks, error_msg, brave_results,
                   urls_to_scrape, attempted, raised, otherVars>>

\* main.py:200-201: the loop is over, sleep and return
EnrichReturn ==
    /\ pc = "scrape"
    /\ uidx > Len(urls_to_scrape)
    /\ pc' = "count"
    /\ brave_results' = EmptyResult
    /\ urls_to_scrape' = <<>>
    /\ uidx' = 1
    /\ scraped' = <<>>
    /\ UNCHANGED <<supabase, request, idx, processed, job, jobWrites, jobWriteFailed,
                   callbacks, error_msg, attempted, raised, extracted, storeFailed,
                   lead_contacts, otherVars>>

\* faulty variant: a business that raised is not counted
CountOnlySucceeded ==
    /\ pc = "count"
    /\ processed' = IF idx \in raised THEN processed ELSE processed + 1
    /\ \/ /\ IF supabase
             THEN /\ job' = [job EXCEPT !.processed = processed']
                  /\ jobWrites' = Append(jobWrites, [status |-> "", processed |-> processed'])
             ELSE UNCHANGED <<job, jobWrites>>
          /\ idx' = idx + 1
          /\ pc' = IF idx + 1 > total THEN "mark_done" ELSE "enrich"
          /\ UNCHANGED jobWriteFailed
       \/ /\ supabase
          /\ jobWriteFailed' = TRUE
          /\ pc' = "handler"
          /\ UNCHANGED <<idx, job, jobWrites>>
    /\ UNCHANGED <<supabase, request, callbacks, error_msg, enrichVars, otherVars>>

\* main.py:102-108: count the business and write the progress
Count ==
    /\ pc = "count"
    /\ processed' = processed + 1
    /\ \/ /\ IF supabase
             THEN /\ job' = [job EXCEPT !.processed = processed']
                  /\ jobWrites' = Append(jobWrites, [status |-> "", processed |-> processed'])
             ELSE UNCHANGED <<job, jobWrites>>
          /\ idx' = idx + 1
          /\ pc' = IF idx + 1 > total THEN "mark_done" ELSE "enrich"
          /\ UNCHANGED jobWriteFailed
       \/ \* the update raises: caught at line 122
          /\ supabase
          /\ jobWriteFailed' = TRUE
          /\ pc' = "handler"
          /\ UNCHANGED <<idx, job, jobWrites>>
    /\ UNCHANGED <<supabase, request, callbacks, error_msg, enrichVars, otherVars>>

\* main.py:110-116: mark the job as done
MarkDone ==
    /\ pc = "mark_done"
    /\ \/ /\ IF supabase
             THEN /\ job' = [job EXCEPT !.status = "done", !.processed = processed]
                  /\ jobWrites' = Append(jobWrites, [status |-> "done", processed |-> processed])
             ELSE UNCHANGED <<job, jobWrites>>
          /\ pc' = "callback_done"
          /\ UNCHANGED jobWriteFailed
       \/ \* the update raises: caught at line 122
          /\ supabase
          /\ jobWriteFailed' = TRUE
          /\ pc' = "handler"
          /\ UNCHANGED <<job, jobWrites>>
    /\ UNCHANGED <<supabase, request, idx, processed, callbacks, error_msg, enrichVars,
                   otherVars>>

\* faulty variant: send_callback lets a failed post raise
CallbackDoneRaises ==
    /\ pc = "callback_done"
    /\ \E delivered \in BOOLEAN :
         /\ callbacks' = Append(callbacks,
                                send_callback("done", processed, total, 0, delivered))
         /\ pc' = IF delivered THEN "finished" ELSE "handler"
    /\ UNCHANGED <<supabase, request, idx, processed, job, jobWrites, jobWriteFailed,
                   error_msg, enrichVars, otherVars>>

\* main.py:118-120: send_callback never raises (main.py:283-298)
CallbackDone ==
    /\ pc = "callback_done"
    /\ \E delivered \in BOOLEAN :
         callbacks' = Append(callbacks,
                             send_callback("done", processed, total, 0, delivered))
    /\ pc' = "finished"
    /\ UNCHANGED <<supabase, request, idx, processed, job, jobWrites, jobWriteFailed,
                   error_msg, enrichVars, otherVars>>

\* faulty variant: no notification after the job is marked failed
HandlerNoCallback ==
    /\ pc = "handler"
    /\ error_msg' \in ErrorLens
    /\ \/ /\ job' = [job EXCEPT !.status = "failed", !.processed = processed,
                                !.error = Min(error_msg', ERROR_CAP)]
          /\ jobWrites' = Append(jobWrites, [status |-> "failed", processed |-> processed])
          /\ pc' = "finished"
          /\ UNCHANGED jobWriteFailed
       \/ /\ jobWriteFailed' = TRUE
          /\ pc' = "crashed"
          /\ UNCHANGED <<job, jobWrites>>
    /\ UNCHANGED <<supabase, request, idx, processed, callbacks, enrichVars, otherVars>>

\* main.py:122-133: the handler of the outer try; error_msg is kept as its
\* length.  Only an update of the jobs table reaches it.
Handler ==
    /\ pc = "handler"
    /\ error_msg' \in ErrorLens
    /\ \/ /\ IF supabase
             THEN /\ job' = [job EXCEPT !.status = "failed", !.processed = processed,
                                        !.error = Min(error_msg', ERROR_CAP)]
                  /\ jobWrites' = Append(jobWrites,
                                         [status |-> "failed", processed |-> processed])
             ELSE UNCHANGED <<job, jobWrites>>
          /\ pc' = "callback_failed"
          /\ UNCHANGED jobWriteFailed
       \/ \* the update raises again: the exception leaves process_enrichment
          /\ supabase
          /\ jobWriteFailed' = TRUE
          /\ pc' = "crashed"
          /\ UNCHANGED <<job, jobWrites>>
    /\ UNCHANGED <<supabase, request, idx, processed, callbacks, enrichVars, otherVars>>

\* main.py:135
CallbackFailed ==
    /\ pc = "callback_failed"
    /\ \E delivered \in BOOLEAN :
         callbacks' = Append(callbacks,
                             send_callback("failed", processed, total, error_msg, delivered))
    /\ pc' = "finished"
    /\ UNCHANGED <<supabase, request, idx, processed, job, jobWrites, jobWriteFailed,
                   error_msg, enrichVars, otherVars>>

Next ==
    \/ Enrich
    \/ ScrapeUrl
    \/ EnrichReturn
    \/ Count
    \/ MarkDone
    \/ CallbackDone
    \/ Handler
    \/ CallbackFailed

Spec == Init /\ [][Next]_vars

JobIdle ==
    /\ supabase = FALSE
    /\ request = [job_id |-> 1, search_id |-> "s1", businesses |-> <<>>]
    /\ pc = "idle"
    /\ idx = 1
    /\ processed = 0
    /\ job = [status |-> "pending", processed |-> 0, error |-> 0]
    /\ jobWrites = <<>>
    /\ jobWriteFailed = FALSE
    /\ callbacks = <<>>
    /\ error_msg = 0
    /\ brave_results = EmptyResult
    /\ urls_to_scrape = <<>>
    /\ uidx = 1
    /\ attempted = <<>>
    /\ raised = {}
    /\ scraped = <<>>
    /\ extracted = {}
    /\ storeFailed = FALSE
ScrapeIdle ==
    /\ page = [fetch |-> "failed", text_emails |-> {}, mailto_hrefs |-> {}]
    /\ scrape_out = [done |-> FALSE, emails |-> <<>>]
StoreIdle ==
    /\ nwrites = 0
    /\ lastWrite = [before |-> {}, rows |-> <<>>, ok |-> FALSE]
SearchIdle ==
    /\ response = [kind |-> "json", shape |-> "object", results |-> <<>>]
    /\ search_out = [done |-> FALSE, res |-> EmptyResult]

-----------------------------------------------------------------------------
(* SpecSearch: search_business applied to one answer of the collaborator *)

\* result URLs the collaborator may return
UrlYelp      == Url("https", "www.yelp.com", "/biz/acme")
UrlInstagram == Url("https", "www.instagram.com", "/acme")
UrlFacebook  == Url("HTTPS", "M.Facebook.com", "/acme")
UrlTwitter   == Url("https", "x.com", "/acme")
UrlAcme      == Url("https", "acme.com.ar", "/")
UrlLuna      == Url("https", "www.luna.com", "/")
UrlRemax     == Url("https", "www.remax.com.ar", "/oficina")

ResultUrls ==
    {EmptyUrl, UrlYelp, UrlInstagram, UrlFacebook, UrlTwitter, UrlAcme, UrlLuna, UrlRemax}

MaxResults == 4

SeqsUpTo(S, n) == UNION {[1..k -> S] : k \in 0..n}

Responses ==
    {[kind |-> k, shape |-> "object", results |-> <<>>] : k \in TransportFailures}
    \cup {[kind |-> "json", shape |-> sh, results |-> <<>>] : sh \in BadShapes}
    \cup {[kind |-> "json", shape |-> "object", results |-> rs] :
             rs \in SeqsUpTo(ResultUrls, MaxResults)}

NotSearched == [done |-> FALSE, res |-> EmptyResult]

InitSearch ==
    /\ response \in Responses
    /\ search_out = NotSearched
    /\ JobIdle /\ lead_contacts = {} /\ ScrapeIdle /\ StoreIdle

Search ==
    /\ ~search_out.done
    /\ search_out' = [done |-> TRUE, res |-> search_business(response)]
    /\ UNCHANGED <<response, jobVars, lead_contacts, scrapeVars, storeVars>>

NextSearch == Search

SpecSearch == InitSearch /\ [][NextSearch]_vars

-----------------------------------------------------------------------------
(* SpecScrape: the e-mail extraction of scrape_url applied to one page *)

\* matches of EMAIL_REGEX in the visible text
TextEmails ==
    {"info@acme.com.ar", "ventas@acme.com.ar", "hola@luna.com",
     "abc123@sentry.io", "user@Example.com"}

\* href attributes of the mailto: links
MailtoHrefs == {"mailto:contacto@luna.com?subject=Hola", "MAILTO:Info@acme.com.ar"}

Pages ==
    {[fetch |-> "html", text_emails |-> t, mailto_hrefs |-> m] :
        t \in SUBSET TextEmails, m \in SUBSET MailtoHrefs}
    \cup {[fetch |-> f, text_emails |-> {}, mailto_hrefs |-> {}] :
            f \in {"not_html", "failed"}}

InitScrape ==
    /\ page \in Pages
    /\ scrape_out = [done |-> FALSE, emails |-> <<>>]
    /\ JobIdle /\ lead_contacts = {} /\ SearchIdle /\ StoreIdle

\* scraper.py:39-79, the "emails" entry of the result
ExtractEmails ==
    /\ ~scrape_out.done
    /\ IF page.fetch # "html"
       THEN scrape_out' = [done |-> TRUE, emails |-> <<>>]
       ELSE \E first \in FirstOfSet(RawEmails(page), EMAIL_CAP) :
              scrape_out' = [done |-> TRUE, emails |-> ScrapedEmails(first)]
    /\ UNCHANGED <<page, jobVars, lead_contacts, searchVars, storeVars>>

NextScrape == ExtractEmails

SpecScrape == InitScrape /\ [][NextScrape]_vars

-----------------------------------------------------------------------------
(* SpecStore: contact writes, as enrich_single_business issues them *)

MaxWrites == 3

StoreBusinessIds == {1, 2}

\* the run and the page a write comes from: two pages of one run, and a
\* page of a later run
WriteSources ==
    { [search_id |-> "s1", url |-> Url("https", "acme.com.ar", "/")],
      [search_id |-> "s1", url |-> Url("https", "www.luna.com", "/")],
      [search_id |-> "s2", url |-> Url("https", "acme.com.ar", "/")] }

\* raw values scrape_url may return, by contact type
RawValues ==
    { <<"email", " Info@Acme.COM.ar">>, <<"email", "Info@acme.com.ar">>,
      <<"phone", "011-4567-8900">>, <<"whatsapp", "+54 11 4567.8900">> }

\* the rows lines 171-195 build from them
WriteRows ==
    {ContactRow(src.search_id, b, v[1], v[2], src.url) :
        src \in WriteSources, b \in StoreBusinessIds, v \in RawValues}

InitStore ==
    /\ lead_contacts = {}
    /\ nwrites = 0
    /\ lastWrite = [before |-> {}, rows |-> <<>>, ok |-> FALSE]
    /\ JobIdle /\ SearchIdle /\ ScrapeIdle

\* main.py:171-195 and 221-250: normalize, score and store one raw value
WriteContact ==
    /\ nwrites < MaxWrites
    /\ \E row \in WriteRows, ok \in BOOLEAN :
         /\ lead_contacts' = StoreContact(lead_contacts, row, ok)
         /\ lastWrite' = [before |-> lead_contacts, rows |-> <<row>>, ok |-> ok]
    /\ nwrites' = nwrites + 1
    /\ UNCHANGED <<jobVars, searchVars, scrapeVars>>

NextStore == WriteContact

SpecStore == InitStore /\ [][NextStore]_vars

-----------------------------------------------------------------------------
(* Properties of process_enrichment (Spec) *)

IdsInOrder == [i \in 1..total |-> request.businesses[i].id]

Stored(key) == \E r \in lead_contacts : Key(r) = key

\* C1: whatever subset of the businesses raises in enrich_single_business,
\* every business of the batch is attempted in the order given and a raising
\* business is counted as processed; when no update of the jobs table raised,
\* the run finishes with status done and processed = total, and every contact
\* scraped for a business whose store write was accepted is in lead_contacts.
C1_BatchSurvivesBusinessErrors ==
    /\ attempted = SubSeq(IdsInOrder, 1, Len(attempted))
    /\ \A i \in raised : i <= processed \/ (i = idx /\ pc = "count")
    /\ (pc = "finished" /\ ~jobWriteFailed) =>
          /\ attempted = IdsInOrder
          /\ processed = total
          /\ Len(callbacks) = 1
          /\ callbacks[1].status = "done"
          /\ callbacks[1].processed = total
          /\ supabase => (job.status = "done" /\ job.processed = total)
          /\ ~storeFailed => \A k \in extracted : Stored(k)

\* business 2 of 3 raised; the job is done with 3 processed and the contacts
\* of businesses 1 and 3 are stored
C1_Witness ==
    /\ pc = "finished"
    /\ total = 3
    /\ raised = {2}
    /\ job.status = "done"
    /\ job.processed = 3
    /\ \E r \in lead_contacts : r.business_id = 1
    /\ \E r \in lead_contacts : r.business_id = 3
    /\ ~\E r \in lead_contacts : r.business_id = 2

\* C2: at most one notification is ever issued; a run that returns has
\* issued exactly one; and when the run ends with the job row done or failed,
\* that one notification carries the row's status and processed count and
\* the batch's total.
C2_ExactlyOneNotification ==
    /\ Len(callbacks) <= 1
    /\ pc = "finished" => Len(callbacks) = 1
    /\ (pc \in {"finished", "crashed"} /\ job.status \in Terminal) =>
          /\ Len(callbacks) = 1
          /\ callbacks[1].status = job.status
          /\ callbacks[1].processed = job.processed
          /\ callbacks[1].total = total
          /\ callbacks[1].job_id = request.job_id
          /\ callbacks[1].search_id = request.search_id

\* the job failed because a jobs-table update raised, and the notification
\* says failed
C2_Witness ==
    /\ pc = "finished"
    /\ jobWriteFailed
    /\ job.status = "failed"
    /\ Len(callbacks) = 1
    /\ callbacks[1].status = "failed"
    /\ callbacks[1].processed < callbacks[1].total

StatusRank(st) ==
    CASE st = "pending" -> 0
      [] st = "processing" -> 1
      [] st \in Terminal -> 2

\* C3: the status of the job row never moves backwards along
\* pending -> processing -> {done, failed}, and once it is done or failed no
\* step of the run changes it.
C3_TerminalIsFinal ==
    [][ /\ StatusRank(job'.status) >= StatusRank(job.status)
        /\ job.status \in Terminal => job'.status = job.status ]_vars

\* done was written and the notification that followed failed
C3_Witness ==
    /\ pc = "finished"
    /\ job.status = "done"
    /\ Len(jobWrites) > 1
    /\ callbacks[1].delivered = FALSE

\* C4: processed never exceeds total, in memory and in the job row; the
\* values written to the job row never decrease from one write to the next;
\* and a job row that is done has processed = total.
C4_ProcessedBounded ==
    /\ processed <= total
    /\ job.processed <= total
    /\ \A i \in 1..Len(jobWrites) : jobWrites[i].processed <= total
    /\ \A i \in 1..(Len(jobWrites) - 1) :
          jobWrites[i].processed <= jobWrites[i + 1].processed
    /\ job.status = "done" => (job.processed = total /\ processed = total)

\* a done job of three businesses, one of which raised
C4_Witness ==
    /\ job.status = "done"
    /\ total = 3
    /\ raised # {}
    /\ Len(jobWrites) = 4
    /\ job.processed = 3

\* C10: the list handed to the scrape loop has at most 3 entries, starts
\* with the resolved website when there is one, holds nothing but the
\* resolved website and the existing website, holds the existing website
\* only when its domain differs from the resolved website's, and is scraped
\* in list order.
C10_ScrapeList ==
    pc = "scrape" =>
      LET w == brave_results.website
          e == request.businesses[idx].existing_website
      IN  /\ Len(urls_to_scrape) <= 3
          /\ w # EmptyUrl => (Len(urls_to_scrape) >= 1 /\ urls_to_scrape[1] = w)
          /\ \A i \in 1..Len(urls_to_scrape) :
                /\ urls_to_scrape[i] \in {w, e}
                /\ urls_to_scrape[i] # EmptyUrl
                /\ (urls_to_scrape[i] = e /\ e # w) =>
                      ExtractDomain(e) # ExtractDomain(w)
          /\ scraped = SubSeq(urls_to_scrape, 1, uidx - 1)

\* the existing website is the resolved site under www. and in capitals:
\* only the resolved website is scraped
C10_Witness ==
    /\ pc = "scrape"
    /\ brave_results.website = Url("https", "acme.com.ar", "/")
    /\ request.businesses[idx].existing_website = UrlAcmeContact
    /\ urls_to_scrape = <<Url("https", "acme.com.ar", "/")>>
    /\ scraped = urls_to_scrape

-----------------------------------------------------------------------------
(* Properties of search_business (SpecSearch) *)

Searched == search_out.done /\ response.kind = "json" /\ response.shape = "object"

\* the platform a hostname belongs to: the domain itself or a subdomain of
\* it, in the declared order; "" when it belongs to none
SocialTypeOfHost(h) ==
    LET hits == {i \in 1..Len(SOCIAL_DOMAINS) :
                    \/ h = SOCIAL_DOMAINS[i].domain
                    \/ EndsWith(h, "." \o SOCIAL_DOMAINS[i].domain)}
    IN  IF hits = {} THEN ""
        ELSE SOCIAL_DOMAINS[CHOOSE i \in hits : \A j \in hits : i <= j].type

IsWebsiteCandidate(u) ==
    /\ u # EmptyUrl
    /\ SocialTypeOfHost(ExtractDomain(u)) = ""
    /\ ExtractDomain(u) \notin SKIP_DOMAINS

FirstWebsite(rs) ==
    LET c == {i \in 1..Len(rs) : IsWebsiteCandidate(rs[i])}
    IN  IF c = {} THEN EmptyUrl
        ELSE rs[CHOOSE i \in c : \A j \in c : i <= j]

\* C5: the website is the first non-empty result URL whose hostname is
\* neither a social-platform domain nor in SKIP_DOMAINS, and none when there
\* is no such URL.
C5_WebsiteIsFirstCandidate ==
    Searched => search_out.res.website = FirstWebsite(response.results)

Occurrences(q, u) == Cardinality({j \in 1..Len(q) : q[j] = u})

NotEmptyUrl(u) == u # EmptyUrl

\* C6: all_urls is the non-empty result URLs in order; a result URL whose
\* hostname is a social-platform domain has one entry in social_urls for
\* each time it was returned, always with that platform's type, and is not
\* the website; a result URL whose hostname is in SKIP_DOMAINS is neither the
\* website nor in social_urls.
C6_SocialAndDenyListed ==
    Searched =>
      LET res == search_out.res
          rs == response.results
          socials == [j \in 1..Len(res.social_urls) |-> res.social_urls[j].url]
      IN  /\ ~res.raised
          /\ res.all_urls = SelectSeq(rs, NotEmptyUrl)
          /\ \A i \in 1..Len(rs) :
                LET u == rs[i]
                    h == ExtractDomain(u)
                IN  u # EmptyUrl =>
                      /\ SocialTypeOfHost(h) # "" =>
                            /\ res.website # u
                            /\ Occurrences(socials, u) = Occurrences(rs, u)
                            /\ \A j \in 1..Len(res.social_urls) :
                                  res.social_urls[j].url = u =>
                                     res.social_urls[j].type = SocialTypeOfHost(h)
                      /\ h \in SKIP_DOMAINS =>
                            /\ res.website # u
                            /\ Occurrences(socials, u) = 0

\* results [deny-listed, social, website A, website B]
C6_Witness ==
    /\ search_out.done
    /\ response.results = <<UrlYelp, UrlFacebook, UrlAcme, UrlLuna>>
    /\ search_out.res.website = UrlAcme
    /\ search_out.res.social_urls = <<[type |-> "facebook", url |-> UrlFacebook]>>
    /\ Len(search_out.res.all_urls) = 4

\* C7: whatever way the search collaborator fails (network error, non-2xx
\* status, a body that is not JSON, JSON of another shape), search_business
\* returns the empty result and raises nothing.
C7_SearchFailuresDegrade ==
    (search_out.done /\ (response.kind \in TransportFailures
                         \/ response.shape \in BadShapes))
       => search_out.res = EmptyResult

-----------------------------------------------------------------------------
(* Properties of scrape_url (SpecScrape) *)

\* C9: no returned e-mail has a junk domain, and the number returned is
\* min(5, number of distinct candidates that are not junk).
C9_EmailsFilteredThenCapped ==
    (scrape_out.done /\ page.fetch = "html") =>
       /\ \A i \in 1..Len(scrape_out.emails) : ~IsJunkEmail(scrape_out.emails[i])
       /\ Len(scrape_out.emails) =
             Min(5, Cardinality({e \in RawEmails(page) : ~IsJunkEmail(e)}))

-----------------------------------------------------------------------------
(* Properties of the contact store (SpecStore) *)

\* C8: lead_contacts holds at most one row for each (business id, contact
\* type, normalized value), and a write whose triple is already stored
\* leaves the table as it was, so that the row of the first write stays.
C8_OneRowPerKey ==
    /\ \A r1, r2 \in lead_contacts : Key(r1) = Key(r2) => r1 = r2
    /\ lastWrite.before \subseteq lead_contacts
    /\ lastWrite.rows # <<>> =>
          ((\E r \in lastWrite.before : Key(r) = Key(lastWrite.rows[1]))
              => lead_contacts = lastWrite.before)

\* an accepted write of a stored triple with another raw value, page and run
C8_Witness ==
    /\ lastWrite.rows # <<>>
    /\ lastWrite.ok
    /\ \E r \in lastWrite.before :
          /\ Key(r) = Key(lastWrite.rows[1])
          /\ r.raw_value # lastWrite.rows[1].raw_value
          /\ r.source_url # lastWrite.rows[1].source_url
          /\ r.search_id # lastWrite.rows[1].search_id
    /\ Cardinality(lead_contacts) = 2

====
